---- MODULE Spec2Model ----
(***************************************************************************)
(* State-machine model of summarization_v1.py: the query generator, the    *)
(* retrieval loop of HeadwayStyleBookSummarizer.retrieve_documents, the    *)
(* content aggregation and the Generate Summary handler of the Streamlit   *)
(* script, and generate_headway_style_summary.                             *)
(*                                                                         *)
(* Python strings are TLA+ strings (Len, \o, SubSeq, Head, Tail act on     *)
(* them character by character).  The three external services (embedding,  *)
(* vector search, chat completion) are the environment: what each call     *)
(* returns or raises is chosen by the environment.                         *)
(*                                                                         *)
(* The template prompt assembler assemble(template, metadata, content) is  *)
(* not part of summarization_v1.py, whose prompt is one f-string; it is    *)
(* modelled from section 4.3 of the specification.                         *)
(***************************************************************************)
EXTENDS Integers, Sequences, FiniteSets, TLC

\* ------------------------------------------------------------------ bounds

\* Direct calls of retrieve_documents pass at most this many queries.
MaxQueries == 3

\* How often the external services may change behaviour during one
\* retrieve_documents call made by the Generate handler (ten queries); in a
\* direct call they may change before every query.
MaxEnvChanges == 0

\* list(set(queries)) iterates in an unspecified order: the model draws the
\* order from the rotations 0..MaxRotation of first-occurrence order.
MaxRotation == 1

\* ------------------------------------------------------- program constants

\* content[:15000]
ContentBudget == 15000

\* ----------------------------------------------------------- string helpers

None == "<None>"

Min(a, b) == IF a < b THEN a ELSE b

CharAt(s, k) == SubSeq(s, k, k)

\* The characters str.strip() removes that occur in the model's texts.
Whitespace == {" ", "\n", "\t"}

RECURSIVE LStrip(_)
LStrip(s) ==
    IF Len(s) > 0 /\ Head(s) \in Whitespace THEN LStrip(Tail(s)) ELSE s

RECURSIVE RStrip(_)
RStrip(s) ==
    IF Len(s) > 0 /\ CharAt(s, Len(s)) \in Whitespace
    THEN RStrip(SubSeq(s, 1, Len(s) - 1))
    ELSE s

\* str.strip()
Strip(s) == RStrip(LStrip(s))

\* sub in s
Contains(s, sub) ==
    \E k \in 0..(Len(s) - Len(sub)) : SubSeq(s, k + 1, k + Len(sub)) = sub

\* s.startswith(prefix)
StartsWith(s, prefix) ==
    Len(prefix) <= Len(s) /\ SubSeq(s, 1, Len(prefix)) = prefix

RECURSIVE Repeat(_, _)
Repeat(s, n) ==
    IF n = 0 THEN ""
    ELSE LET h == Repeat(s, n \div 2)
         IN  h \o h \o (IF n % 2 = 1 THEN s ELSE "")

Range(f) == {f[k] : k \in DOMAIN f}

NoDuplicates(seq) ==
    \A a, b \in DOMAIN seq : a # b => seq[a] # seq[b]

\* --------------------------------------------------------- query generator

\* BookMetadata(title, author, filename)
BookMetadata(title, author) == [title |-> title, author |-> author]

\* The patterns with the title left out of the second one.
QueryPatternsBareSuffix(book_metadata) ==
    LET book_title == book_metadata.title
        author == book_metadata.author
    IN  << book_title,
           "summary",
           book_title \o " key concepts",
           book_title \o " main ideas",
           author,
           author \o " " \o book_title,
           "key takeaways " \o book_title,
           "actionable advice " \o book_title,
           "lessons from " \o book_title,
           "principles " \o book_title >>

\* The ten f-strings of generate_retrieval_queries, in source order.
QueryPatterns(book_metadata) ==
    LET book_title == book_metadata.title
        author == book_metadata.author
    IN  << book_title,
           book_title \o " summary",
           book_title \o " key concepts",
           book_title \o " main ideas",
           author,
           author \o " " \o book_title,
           "key takeaways " \o book_title,
           "actionable advice " \o book_title,
           "lessons from " \o book_title,
           "principles " \o book_title >>

\* The distinct elements of a list, in first-occurrence order.
RECURSIVE FirstOccurrences(_)
FirstOccurrences(seq) ==
    IF seq = <<>> THEN <<>>
    ELSE LET rest == FirstOccurrences(SubSeq(seq, 1, Len(seq) - 1))
             last == seq[Len(seq)]
         IN  IF last \in Range(rest) THEN rest ELSE Append(rest, last)

Rotate(seq, r) ==
    IF seq = <<>> THEN seq
    ELSE [k \in 1..Len(seq) |-> seq[((k - 1 + r) % Len(seq)) + 1]]

\* return queries: the list as built, without set().
ListWithoutSet(seq) ==
    {Rotate(seq, r) : r \in 0..MaxRotation}

\* list(set(queries)): every element once, in one of the modelled orders.
ListOfSet(seq) ==
    {Rotate(FirstOccurrences(seq), r) : r \in 0..MaxRotation}

\* generate_retrieval_queries: the lists it may return.
generate_retrieval_queries(book_metadata) ==
    ListOfSet(QueryPatterns(book_metadata))

\* ------------------------------------------------------------- retrieval

\* What the embedding service does with a request.
EmbedOutcomes == {"raise", "empty", "ok"}

\* generate_embedding: the vector, or [] when the call raised.
generate_embedding(outcome) ==
    IF outcome = "raise" THEN <<>>
    ELSE IF outcome = "empty" THEN <<>>
    ELSE <<1>>

\* A chunk so long that the chunks of the handler's queries together exceed
\* the content budget.
LongChunk == Repeat("x", ContentBudget \div 10 + 1)

\* Result sets the search service may return, of records with or without
\* the "chunk" field: nothing, one chunk, a whitespace-only chunk, two
\* chunks around a record without one, and a long chunk.
SearchResults ==
    { <<>>,
      << [chunk |-> "c"] >>,
      << [chunk |-> " "] >>,
      << [chunk |-> "c"], [id |-> "7"], [chunk |-> "d"] >>,
      << [chunk |-> LongChunk] >> }

\* [result["chunk"] for result in results if "chunk" in result]
RECURSIVE Chunks(_)
Chunks(results) ==
    IF results = <<>> THEN <<>>
    ELSE LET r == Head(results)
         IN  IF "chunk" \in DOMAIN r
             THEN <<r.chunk>> \o Chunks(Tail(results))
             ELSE Chunks(Tail(results))

\* A dict is the sequence of its (key, value) pairs in insertion order.
DictKeys(d) == {d[k][1] : k \in DOMAIN d}

DictGet(d, key) == LET k == CHOOSE k \in DOMAIN d : d[k][1] = key IN d[k][2]

\* d[key] = value
DictSet(d, key, value) ==
    IF key \in DictKeys(d)
    THEN [k \in DOMAIN d |-> IF d[k][1] = key THEN <<key, value>> ELSE d[k]]
    ELSE Append(d, <<key, value>>)

\* ------------------------------------------------------------ aggregation

\* "\n".join(docs)
RECURSIVE JoinLines(_)
JoinLines(docs) ==
    IF docs = <<>> THEN ""
    ELSE IF Len(docs) = 1 THEN docs[1]
    ELSE docs[1] \o "\n" \o JoinLines(Tail(docs))

\* The aggregation without the newline after each query's chunks.
RECURSIVE AggregateWithoutNewline(_)
AggregateWithoutNewline(d) ==
    IF d = <<>> THEN ""
    ELSE LET docs == d[Len(d)][2]
             before == AggregateWithoutNewline(SubSeq(d, 1, Len(d) - 1))
         IN  IF docs # <<>> THEN before \o JoinLines(docs) ELSE before

\* for q, docs in retrieved_docs.items(): if docs: all_content += ...
RECURSIVE AggregateContent(_)
AggregateContent(d) ==
    IF d = <<>> THEN ""
    ELSE LET docs == d[Len(d)][2]
             before == AggregateContent(SubSeq(d, 1, Len(d) - 1))
         IN  IF docs # <<>> THEN before \o JoinLines(docs) \o "\n" ELSE before

\* ------------------------------------------------------ summary generation

\* The early return of generate_headway_style_summary.
NoContentMessage == "Summary could not be generated - no content available."

CalloutKeys ==
    << "did_you_know", "try_this", "heres_the_thing", "remember",
       "lets_be_honest", "the_bottom_line", "sound_familiar", "key_takeaway",
       "think_about_it", "the_truth_is" >>

\* callout_translations (letters outside ASCII are written without their
\* accents; the Chinese and Japanese titles are written as their key with a
\* language prefix).
callout_translations ==
    [ English |->
        [ did_you_know |-> "Did you know?", try_this |-> "Try this:",
          heres_the_thing |-> "Here's the thing:", remember |-> "Remember:",
          lets_be_honest |-> "Let's be honest:",
          the_bottom_line |-> "The bottom line:",
          sound_familiar |-> "Sound familiar?",
          key_takeaway |-> "Key takeaway:",
          think_about_it |-> "Think about it:",
          the_truth_is |-> "The truth is:" ],
      Spanish |->
        [ did_you_know |-> "Sabias que?", try_this |-> "Prueba esto:",
          heres_the_thing |-> "Esto es lo importante:",
          remember |-> "Recuerda:", lets_be_honest |-> "Seamos honestos:",
          the_bottom_line |-> "En resumen:",
          sound_familiar |-> "Te suena familiar?",
          key_takeaway |-> "Punto clave:", think_about_it |-> "Piensalo:",
          the_truth_is |-> "La verdad es:" ],
      French |->
        [ did_you_know |-> "Le saviez-vous?", try_this |-> "Essayez ceci:",
          heres_the_thing |-> "Voici la chose:",
          remember |-> "Rappelez-vous:",
          lets_be_honest |-> "Soyons honnetes:",
          the_bottom_line |-> "L'essentiel:",
          sound_familiar |-> "Ca vous dit quelque chose?",
          key_takeaway |-> "Point cle:", think_about_it |-> "Pensez-y:",
          the_truth_is |-> "La verite est:" ],
      Turkish |->
        [ did_you_know |-> "Biliyor muydunuz?", try_this |-> "Bunu deneyin:",
          heres_the_thing |-> "Soyle bir sey var:",
          remember |-> "Unutmayin:", lets_be_honest |-> "Acikcasi:",
          the_bottom_line |-> "Ozetle:",
          sound_familiar |-> "Tanidik geliyor mu?",
          key_takeaway |-> "Onemli nokta:",
          think_about_it |-> "Bir dusunun:",
          the_truth_is |-> "Gercek su ki:" ],
      German |->
        [ did_you_know |-> "Wussten Sie?",
          try_this |-> "Versuchen Sie dies:",
          heres_the_thing |-> "Die Sache ist:",
          remember |-> "Denken Sie daran:",
          lets_be_honest |-> "Seien wir ehrlich:",
          the_bottom_line |-> "Unterm Strich:",
          sound_familiar |-> "Kommt Ihnen bekannt vor?",
          key_takeaway |-> "Wichtigster Punkt:",
          think_about_it |-> "Denken Sie daruber nach:",
          the_truth_is |-> "Die Wahrheit ist:" ],
      Italian |->
        [ did_you_know |-> "Lo sapevi?", try_this |-> "Prova questo:",
          heres_the_thing |-> "Ecco il punto:", remember |-> "Ricorda:",
          lets_be_honest |-> "Siamo onesti:",
          the_bottom_line |-> "In sintesi:",
          sound_familiar |-> "Ti suona familiare?",
          key_takeaway |-> "Punto chiave:", think_about_it |-> "Pensaci:",
          the_truth_is |-> "La verita e:" ],
      Portuguese |->
        [ did_you_know |-> "Voce sabia?", try_this |-> "Tente isto:",
          heres_the_thing |-> "A questao e:", remember |-> "Lembre-se:",
          lets_be_honest |-> "Sejamos honestos:",
          the_bottom_line |-> "Resumindo:",
          sound_familiar |-> "Parece familiar?",
          key_takeaway |-> "Ponto chave:",
          think_about_it |-> "Pense nisso:",
          the_truth_is |-> "A verdade e:" ],
      Chinese |->
        [ did_you_know |-> "zh:did_you_know", try_this |-> "zh:try_this",
          heres_the_thing |-> "zh:heres_the_thing",
          remember |-> "zh:remember",
          lets_be_honest |-> "zh:lets_be_honest",
          the_bottom_line |-> "zh:the_bottom_line",
          sound_familiar |-> "zh:sound_familiar",
          key_takeaway |-> "zh:key_takeaway",
          think_about_it |-> "zh:think_about_it",
          the_truth_is |-> "zh:the_truth_is" ],
      Japanese |->
        [ did_you_know |-> "ja:did_you_know", try_this |-> "ja:try_this",
          heres_the_thing |-> "ja:heres_the_thing",
          remember |-> "ja:remember",
          lets_be_honest |-> "ja:lets_be_honest",
          the_bottom_line |-> "ja:the_bottom_line",
          sound_familiar |-> "ja:sound_familiar",
          key_takeaway |-> "ja:key_takeaway",
          think_about_it |-> "ja:think_about_it",
          the_truth_is |-> "ja:the_truth_is" ] ]

\* callouts = callout_translations.get("English", callout_translations["English"])
Callouts(summary_language) ==
    IF "English" \in DOMAIN callout_translations
    THEN callout_translations["English"]
    ELSE callout_translations["English"]

\* content[:15000]
Truncate(content) == SubSeq(content, 1, Min(Len(content), ContentBudget))

Text(s) == [kind |-> "text", text |-> s]
Lang(s) == [kind |-> "language", text |-> s]
Callout(c, key) == [kind |-> "callout", text |-> c[key]]
Title(m) == [kind |-> "title", text |-> m.title]
Author(m) == [kind |-> "author", text |-> m.author]
ContentPart(s) == [kind |-> "content", text |-> s]

\* The prompt f-string as the sequence of its literal pieces and substituted
\* values, in source order.  The instruction text between two substitutions
\* is abridged to its first words; every substitution is kept.
PromptParts(summary_language, metadata_, content) ==
    LET c == Callouts(summary_language)
    IN  << Text("\nYou are creating a COMPREHENSIVE, LONG, engaging, conversational book summary\n- Write the ENTIRE summary in "),
           Lang(summary_language),
           Text("\n- ALL text MUST be in "),
           Lang(summary_language),
           Text("\n- Use these specific callout titles if necessary in "),
           Lang(summary_language),
           Text(":\n  * \""), Callout(c, "did_you_know"),
           Text("\" (for fascinating facts)\n  * \""), Callout(c, "try_this"),
           Text("\" (for actionable steps)\n  * \""), Callout(c, "heres_the_thing"),
           Text("\" (for important insights)\n  * \""), Callout(c, "remember"),
           Text("\" (for key principles)\n  * \""), Callout(c, "lets_be_honest"),
           Text("\" (for relatable truths)\n  * \""), Callout(c, "the_bottom_line"),
           Text("\" (for summarizing takeaways)\n  * \""), Callout(c, "sound_familiar"),
           Text("\" (for connection with readers)\n  * \""), Callout(c, "key_takeaway"),
           Text("\" (for main points)\n  * \""), Callout(c, "think_about_it"),
           Text("\" (for reflection prompts)\n  * \""), Callout(c, "the_truth_is"),
           Text("\" (for powerful statements)\n\n**GENRE FOCUS**\n- A bold header in "),
           Lang(summary_language),
           Text(" (make it a question)\n- At least one \""), Callout(c, "did_you_know"),
           Text("\" callout\n- A \""), Callout(c, "try_this"),
           Text("\" section\n\n**Conclusion**\n- Include comprehensive \""),
           Callout(c, "try_this"),
           Text("\" section\n\n**CONVERSATIONAL TONE**\n- Use \"you\" and \"we\" (in "),
           Lang(summary_language),
           Text(")\n\n**FORMATTING RULES:**\n- Use bold for section headers in "),
           Lang(summary_language),
           Text("\n- NO generic headers - make them personal, provocative, and in "),
           Lang(summary_language),
           Text("\n\nBook Title: "), Title(metadata_),
           Text("\nAuthor: "), Author(metadata_),
           Text("\nGenre: Personal Growth & Self-Help\n\nContent:\n"),
           ContentPart(content),
           Text("\n\nNow create an EXTENSIVE, LONG summary IN "),
           Lang(summary_language),
           Text(" that thoroughly covers the book. Remember: ALL text must be in "),
           Lang(summary_language),
           Text(".\n\n\nBook Title: "), Title(metadata_),
           Text("\nAuthor: "), Author(metadata_),
           Text("\nGenre: Personal Growth & Self-Help\n\nContent:\n"),
           ContentPart(Truncate(content)),
           Text("\n\nNow create your EXTENSIVE, LONG, engaging summary (10,000-15,000 words).\n") >>

\* The prompt string: the pieces concatenated.
RECURSIVE Flatten(_)
Flatten(parts) ==
    IF parts = <<>> THEN "" ELSE Head(parts).text \o Flatten(Tail(parts))

\* return f"Error: {str(e)}"
ErrorResult(e) == "Error: " \o e

\* What the chat completion call does: returns a text or raises.
ChatOutcomes ==
    { [kind |-> "ok", text |-> "# Generated summary"],
      [kind |-> "raise", text |-> "Connection error."] }

\* ------------------------------------------------- template prompt assembly

\* The positions where old occurs in s.
Occurrences(s, old) ==
    { k \in 1..(Len(s) - Len(old) + 1) : SubSeq(s, k, k + Len(old) - 1) = old }

\* "Replace all occurrences": the occurrences are taken from the left and do
\* not overlap; what was put in is not scanned again by the same replacement.
RECURSIVE Replace(_, _, _)
Replace(s, old, new) ==
    LET occ == Occurrences(s, old)
    IN  IF old = "" \/ occ = {}
        THEN s
        ELSE LET k == CHOOSE k \in occ : \A j \in occ : k <= j
             IN  SubSeq(s, 1, k - 1) \o new
                 \o Replace(SubSeq(s, k + Len(old), Len(s)), old, new)

\* The six recognized placeholders.
Placeholders ==
    { "{{title}}", "{{author}}", "{{content}}",
      "{title}", "{author}", "{content}" }

\* The substitution with the single-brace forms resolved first.
assembleSingleFirst(template_, metadata_, content) ==
    LET s1 == Replace(template_, "{title}", metadata_.title)
        s2 == Replace(s1, "{author}", metadata_.author)
        s3 == Replace(s2, "{{title}}", metadata_.title)
        s4 == Replace(s3, "{{author}}", metadata_.author)
        truncated == Truncate(content)
        s5 == Replace(s4, "{content}", truncated)
    IN  Replace(s5, "{{content}}", truncated)

\* assemble(template, metadata, content): four steps in this order, each on
\* the result of the one before.
\*   1. {{title}} then {{author}}     2. {title} then {author}
\*   3. content to its first 15,000 characters
\*   4. {{content}} then {content}
assemble(template_, metadata_, content) ==
    LET s1 == Replace(template_, "{{title}}", metadata_.title)
        s2 == Replace(s1, "{{author}}", metadata_.author)
        s3 == Replace(s2, "{title}", metadata_.title)
        s4 == Replace(s3, "{author}", metadata_.author)
        truncated == Truncate(content)
        s5 == Replace(s4, "{{content}}", truncated)
    IN  Replace(s5, "{content}", truncated)

\* ------------------------------------------------------------------ state

VARIABLES
    entry,            \* what drives the run: the Streamlit script ("ui") or a
                      \* direct call of one method ("queries", "retrieve",
                      \* "summary")
    pc,               \* the position of the control flow
    summary_result,   \* st.session_state.summary_result
    current_book,     \* st.session_state.current_book
    result_book,      \* the title of the book whose run stored summary_result
    summary_language, \* summarizer.summary_language
    metadata,         \* the BookMetadata of the run
    queries,          \* the list passed to retrieve_documents
    i,                \* the loop index of retrieve_documents (from 1)
    all_documents,    \* the dict built by retrieve_documents
    query_embedding,  \* the embedding of the current query
    all_content,      \* the aggregated content / the content argument
    prompt_parts,     \* the prompt sent to the chat completion call
    chat_calls,       \* chat completion calls made in this run
    summary_text,     \* what generate_headway_style_summary returned
    raised,           \* an exception left the method being run
    mode,             \* how the embedding and search services answer now
    env_budget,       \* changes of mode still allowed in this call
    trace,            \* the external requests and delays of this call
    template,         \* the template passed to assemble
    assembled_prompt  \* what assemble returned

vars ==
    << entry, pc, summary_result, current_book, result_book, summary_language,
       metadata, queries, i, all_documents, query_embedding, all_content,
       prompt_parts, chat_calls, summary_text, raised, mode, env_budget,
       trace, template, assembled_prompt >>

assembler == << template, assembled_prompt >>

session == << summary_result, current_book, result_book >>

\* ------------------------------------------------------------ environment

Mode(embed, search, results) ==
    [embed |-> embed, search |-> search, results |-> results]

\* The embedding call raises, returns no vector, or succeeds; after a vector
\* the search call raises or returns a result set.
Modes ==
    { Mode("raise", "none", <<>>), Mode("empty", "none", <<>>),
      Mode("ok", "raise", <<>>) }
    \cup { Mode("ok", "ok", r) : r \in SearchResults }

NoMode == Mode("none", "none", <<>>)

\* One external request or delay: the operation, the query (for the chat
\* call: the failure description), how it ended, what the search returned.
Event(op, q, out, data) == [op |-> op, q |-> q, out |-> out, data |-> data]

\* ------------------------------------------------------------------ inputs

\* BookInfo entries of the catalog (all_books).
Books ==
    { BookMetadata("Atomic Habits", "James Clear"),
      BookMetadata("Deep Work", "Cal Newport") }

\* st.selectbox("Language:", [...])
Languages == {"English", "Spanish", "French", "Turkish", "German"}

\* Metadata for direct calls of generate_retrieval_queries.
MetadataPool ==
    { BookMetadata(t, a) :
        t \in {"", "A", "summary"},
        a \in {"", "A", "summary", "key takeaways", "Unknown Author"} }

QueryPool == << "q1", "q2", "q3", "q4", "q5", "q6" >>

\* Lists of distinct queries for direct calls of retrieve_documents: the
\* method compares queries only for equality, so one list of each length.
QueryLists ==
    { SubSeq(QueryPool, 1, n) : n \in 0..Min(MaxQueries, Len(QueryPool)) }

\* Contents for direct calls of generate_headway_style_summary.
ContentPool ==
    { "", " ", " \n\t ", "c\n", " c d ", Repeat("x", ContentBudget),
      Repeat("x", ContentBudget + 1) \o "\n" }

\* A template as the pieces it was written from: literal text, a
\* double-brace placeholder {{name}} or a single-brace placeholder {name}.
Literal(s) == [kind |-> "literal", text |-> s]
DoubleBrace(name) == [kind |-> "double", text |-> name]
SingleBrace(name) == [kind |-> "single", text |-> name]

\* The template string of a sequence of pieces.
RECURSIVE Render(_)
Render(pieces) ==
    IF pieces = <<>>
    THEN ""
    ELSE LET p == Head(pieces)
         IN  (CASE p.kind = "literal" -> p.text
                [] p.kind = "double" -> "{{" \o p.text \o "}}"
                [] p.kind = "single" -> "{" \o p.text \o "}")
             \o Render(Tail(pieces))

\* Templates for calls of assemble: each double-brace form alone, the two
\* forms mixed, brace sequences that are no placeholder, no placeholder at
\* all, the empty template.
TemplatePool ==
    { << Literal("Title: "), DoubleBrace("title") >>,
      << DoubleBrace("author"), Literal(" wrote it") >>,
      << Literal("Content:\n"), DoubleBrace("content") >>,
      << DoubleBrace("title"), Literal(" by "), SingleBrace("author"),
         Literal(": "), DoubleBrace("content") >>,
      << SingleBrace("title"), Literal("/"), DoubleBrace("title"),
         Literal("/"), SingleBrace("content"), DoubleBrace("author") >>,
      << Literal("{isbn} {{ title }} {Title} {} {{year}} by "),
         DoubleBrace("title") >>,
      << Literal("{"), DoubleBrace("title"), Literal("}") >>,
      << Literal("no placeholder } {") >>,
      << >> }

\* Metadata for calls of assemble: catalog entries, and titles that read
\* like a placeholder or like a placeholder's name.
AssembleMetadata ==
    Books \cup { BookMetadata("{author}", "James Clear"),
                 BookMetadata("author", "Cal Newport") }

\* Contents for calls of assemble.
AssembleContents ==
    { "c\n", "see {content}", Repeat("x", ContentBudget + 1) }

NoMetadata == BookMetadata(None, None)

\* The locals of a run before it starts.
LocalsCleared ==
    /\ summary_language = None
    /\ metadata = NoMetadata
    /\ queries = <<>>
    /\ i = 0
    /\ all_documents = <<>>
    /\ query_embedding = <<>>
    /\ all_content = ""
    /\ prompt_parts = <<>>
    /\ chat_calls = 0
    /\ summary_text = None
    /\ raised = FALSE
    /\ mode = NoMode
    /\ env_budget = 0
    /\ trace = <<>>

\* The script's first run: session_state is initialised to None, None.
InitUI ==
    /\ entry = "ui"
    /\ pc = "idle"
    /\ summary_result = None
    /\ current_book = None
    /\ result_book = None
    /\ template = None
    /\ assembled_prompt = None
    /\ LocalsCleared

InitDirect ==
    /\ summary_result = None
    /\ current_book = None
    /\ result_book = None
    /\ i = 0
    /\ all_documents = <<>>
    /\ query_embedding = <<>>
    /\ prompt_parts = <<>>
    /\ chat_calls = 0
    /\ summary_text = None
    /\ raised = FALSE
    /\ mode = NoMode
    /\ env_budget = 0
    /\ trace = <<>>
    /\ assembled_prompt = None
    /\ \/ /\ entry = "queries"
          /\ pc = "generate_queries"
          /\ metadata \in MetadataPool
          /\ summary_language = "English"
          /\ queries = <<>>
          /\ all_content = ""
          /\ template = None
       \/ /\ entry = "retrieve"
          /\ pc = "retrieve"
          /\ metadata = NoMetadata
          /\ summary_language = "English"
          /\ queries \in QueryLists
          /\ all_content = ""
          /\ template = None
       \/ /\ entry = "summary"
          /\ pc = "summary"
          /\ metadata \in Books
          /\ summary_language \in Languages \cup {"Italian", "Klingon"}
          /\ queries = <<>>
          /\ all_content \in ContentPool
          /\ template = None
       \/ /\ entry = "assemble"
          /\ pc = "assemble"
          /\ metadata \in AssembleMetadata
          /\ summary_language = "English"
          /\ queries = <<>>
          /\ all_content \in AssembleContents
          /\ template \in { Render(pieces) : pieces \in TemplatePool }

Init == InitUI \/ InitDirect

\* ----------------------------------------------------------------- actions

\* Where a method called by the Generate handler returns to; a direct call
\* ends the run.
ReturnTo(label) == IF entry = "ui" THEN label ELSE "done"

\* if st.button("Generate Summary"): the handler's first lines.
Generate ==
    /\ entry = "ui"
    /\ pc = "idle"
    /\ \E selected_book \in Books, language \in Languages :
          /\ current_book' = selected_book.title
          /\ summary_language' = language
          /\ metadata' = BookMetadata(selected_book.title, selected_book.author)
    /\ pc' = "generate_queries"
    /\ UNCHANGED << assembler, entry, summary_result, result_book, queries, i,
                    all_documents, query_embedding, all_content, prompt_parts,
                    chat_calls, summary_text, raised, mode, env_budget, trace >>

\* queries = summarizer.generate_retrieval_queries(metadata)
GenerateQueries ==
    /\ pc = "generate_queries"
    /\ queries' \in generate_retrieval_queries(metadata)
    /\ pc' = ReturnTo("retrieve")
    /\ UNCHANGED << assembler, entry, session, summary_language, metadata, i,
                    all_documents, query_embedding, all_content, prompt_parts,
                    chat_calls, summary_text, raised, mode, env_budget, trace >>

\* retrieve_documents up to the loop.  The services start in any mode.
RetrieveStart ==
    /\ pc = "retrieve"
    /\ all_documents' = <<>>
    /\ i' = 1
    /\ mode' \in Modes
    /\ env_budget' = IF entry = "ui" THEN MaxEnvChanges ELSE Len(queries)
    /\ trace' = <<>>
    /\ pc' = "loop"
    /\ UNCHANGED << assembler, entry, session, summary_language, metadata, queries,
                    query_embedding, all_content, prompt_parts, chat_calls,
                    summary_text, raised >>

\* The services change their behaviour between two queries.
EnvChange ==
    /\ pc = "loop"
    /\ 1 < i /\ i <= Len(queries)
    /\ env_budget > 0
    /\ mode' \in Modes \ {mode}
    /\ env_budget' = env_budget - 1
    /\ UNCHANGED << assembler, entry, pc, session, summary_language, metadata, queries, i,
                    all_documents, query_embedding, all_content, prompt_parts,
                    chat_calls, summary_text, raised, trace >>

\* if not query_embedding: continue -- the dict is left as it is.
SkipQuery(d, query) == d

\* The embedding step without "if not query_embedding: continue": the search
\* is issued whatever generate_embedding returned.
EmbedRequestWithoutContinue ==
    /\ pc = "loop"
    /\ i <= Len(queries)
    /\ trace' = Append(trace, Event("embed", queries[i], mode.embed, <<>>))
    /\ query_embedding' = generate_embedding(mode.embed)
    /\ pc' = "search"
    /\ UNCHANGED << assembler, entry, session, summary_language, metadata,
                    queries, i, all_documents, all_content, prompt_parts,
                    chat_calls, summary_text, raised, mode, env_budget >>

\* query_embedding = self.generate_embedding(query); if not ...: continue
EmbedRequest ==
    /\ pc = "loop"
    /\ i <= Len(queries)
    /\ LET query == queries[i]
           embedding == generate_embedding(mode.embed)
       IN  /\ trace' = Append(trace, Event("embed", query, mode.embed, <<>>))
           /\ query_embedding' = embedding
           /\ IF embedding = <<>>
              THEN /\ all_documents' = SkipQuery(all_documents, query)
                   /\ i' = i + 1
                   /\ pc' = "loop"
              ELSE /\ all_documents' = all_documents
                   /\ i' = i
                   /\ pc' = "search"
    /\ UNCHANGED << assembler, entry, session, summary_language, metadata, queries,
                    all_content, prompt_parts, chat_calls, summary_text,
                    raised, mode, env_budget >>

\* The loop body without its except clause: the exception leaves the method.
SearchPropagates(d, query) ==
    [raised |-> TRUE, documents |-> d]

\* except Exception as e: all_documents[query] = []
SearchFailed(d, query) ==
    [raised |-> FALSE, documents |-> DictSet(d, query, <<>>)]

\* results = search_client.search(...); all_documents[query] = documents
SearchRequest ==
    /\ pc = "search"
    /\ LET query == queries[i]
       IN  /\ trace' = Append(trace, Event("search", query, mode.search, mode.results))
           /\ IF mode.search = "raise"
              THEN LET handled == SearchFailed(all_documents, query)
                   IN  /\ all_documents' = handled.documents
                       /\ raised' = handled.raised
                       /\ i' = IF handled.raised THEN i ELSE i + 1
                       /\ pc' = IF handled.raised THEN "crashed" ELSE "loop"
              ELSE /\ all_documents' =
                          DictSet(all_documents, query, Chunks(mode.results))
                   /\ raised' = raised
                   /\ i' = i
                   /\ pc' = "sleep"
    /\ UNCHANGED << assembler, entry, session, summary_language, metadata, queries,
                    query_embedding, all_content, prompt_parts, chat_calls,
                    summary_text, mode, env_budget >>

\* time.sleep(0.2), the last statement of the try block
Sleep ==
    /\ pc = "sleep"
    /\ trace' = Append(trace, Event("sleep", queries[i], "ok", <<>>))
    /\ i' = i + 1
    /\ pc' = "loop"
    /\ UNCHANGED << assembler, entry, session, summary_language, metadata, queries,
                    all_documents, query_embedding, all_content, prompt_parts,
                    chat_calls, summary_text, raised, mode, env_budget >>

\* my_bar.empty(); return all_documents
RetrieveReturn ==
    /\ pc = "loop"
    /\ i > Len(queries)
    /\ pc' = ReturnTo("aggregate")
    /\ UNCHANGED << assembler, entry, session, summary_language, metadata, queries, i,
                    all_documents, query_embedding, all_content, prompt_parts,
                    chat_calls, summary_text, raised, mode, env_budget, trace >>

\* The handler's aggregation loop and its "if not all_content.strip()" test.
Aggregate ==
    /\ pc = "aggregate"
    /\ all_content' = AggregateContent(all_documents)
    /\ pc' = IF Strip(all_content') = "" THEN "display" ELSE "summary"
    /\ UNCHANGED << assembler, entry, session, summary_language, metadata, queries, i,
                    all_documents, query_embedding, prompt_parts, chat_calls,
                    summary_text, raised, mode, env_budget, trace >>

\* The test written without strip(): if not content
HasContentNoStrip(content) == content # ""

\* if not content.strip(): the test of generate_headway_style_summary
HasContent(content) == Strip(content) # ""

\* generate_headway_style_summary, early return
SummaryNoContent ==
    /\ pc = "summary"
    /\ ~HasContent(all_content)
    /\ summary_text' = NoContentMessage
    /\ pc' = ReturnTo("store")
    /\ UNCHANGED << assembler, entry, session, summary_language, metadata, queries, i,
                    all_documents, query_embedding, all_content, prompt_parts,
                    chat_calls, raised, mode, env_budget, trace >>

\* The call without its except clause: the exception leaves the method.
ChatResultPropagates(outcome) ==
    IF outcome.kind = "ok"
    THEN [raised |-> FALSE, value |-> outcome.text]
    ELSE [raised |-> TRUE, value |-> None]

\* try: ... return response.choices[0].message.content
\* except Exception as e: return f"Error: {str(e)}"
ChatResult(outcome) ==
    IF outcome.kind = "ok"
    THEN [raised |-> FALSE, value |-> outcome.text]
    ELSE [raised |-> FALSE, value |-> ErrorResult(outcome.text)]

\* generate_headway_style_summary: the prompt and the chat completion call
ChatCompletion ==
    /\ pc = "summary"
    /\ HasContent(all_content)
    /\ prompt_parts' = PromptParts(summary_language, metadata, all_content)
    /\ chat_calls' = chat_calls + 1
    /\ \E outcome \in ChatOutcomes :
          LET r == ChatResult(outcome)
          IN  /\ trace' = Append(trace, Event("chat", outcome.text, outcome.kind, <<>>))
              /\ summary_text' = r.value
              /\ raised' = r.raised
              /\ pc' = IF r.raised THEN "crashed" ELSE ReturnTo("store")
    /\ UNCHANGED << assembler, entry, session, summary_language, metadata, queries, i,
                    all_documents, query_embedding, all_content, mode,
                    env_budget >>

\* st.session_state.summary_result = summary_text
StoreResult ==
    /\ pc = "store"
    /\ summary_result' = summary_text
    /\ result_book' = metadata.title
    /\ pc' = "display"
    /\ UNCHANGED << assembler, entry, current_book, summary_language, metadata, queries,
                    i, all_documents, query_embedding, all_content,
                    prompt_parts, chat_calls, summary_text, raised, mode,
                    env_budget, trace >>

\* The script run ends (DISPLAY RESULT) and waits for the next interaction;
\* the handler's locals are gone, session_state stays.
Display ==
    /\ pc = "display"
    /\ pc' = "idle"
    /\ summary_language' = None
    /\ metadata' = NoMetadata
    /\ queries' = <<>>
    /\ i' = 0
    /\ all_documents' = <<>>
    /\ query_embedding' = <<>>
    /\ all_content' = ""
    /\ prompt_parts' = <<>>
    /\ chat_calls' = 0
    /\ summary_text' = None
    /\ raised' = FALSE
    /\ mode' = NoMode
    /\ env_budget' = 0
    /\ trace' = <<>>
    /\ UNCHANGED << assembler, entry, session >>

\* A call of assemble(template, metadata, content).
Assemble ==
    /\ pc = "assemble"
    /\ assembled_prompt' = assemble(template, metadata, all_content)
    /\ pc' = ReturnTo("done")
    /\ UNCHANGED << template, entry, session, summary_language, metadata,
                    queries, i, all_documents, query_embedding, all_content,
                    prompt_parts, chat_calls, summary_text, raised, mode,
                    env_budget, trace >>

Next ==
    \/ Generate
    \/ GenerateQueries
    \/ RetrieveStart
    \/ EnvChange
    \/ EmbedRequest
    \/ SearchRequest
    \/ Sleep
    \/ RetrieveReturn
    \/ Aggregate
    \/ SummaryNoContent
    \/ ChatCompletion
    \/ StoreResult
    \/ Display
    \/ Assemble

Spec == Init /\ [][Next]_vars

\* ------------------------------------------------------------ observations

\* retrieve_documents is running its loop.
InRetrieve == pc \in {"loop", "search", "sleep"}

\* retrieve_documents has just returned its dict.
Returned == pc = "aggregate" \/ (entry = "retrieve" /\ pc = "done")

RetrieveStep == EmbedRequest \/ SearchRequest \/ Sleep \/ RetrieveReturn

EventsOf(op) == SelectSeq(trace, LAMBDA e : e.op = op)

\* The queries of the embedding requests issued so far, in order.
EmbedQueries == [k \in DOMAIN EventsOf("embed") |-> EventsOf("embed")[k].q]

\* The queries whose embedding or search step failed.
FailedQueries ==
    { e.q : e \in { x \in Range(trace) :
                      \/ x.op = "embed" /\ x.out \in {"raise", "empty"}
                      \/ x.op = "search" /\ x.out = "raise" } }

\* Steps of the loop still to run: each step of the loop lowers it.
LoopMeasure ==
    3 * (Len(queries) + 1 - i)
    + (IF pc = "loop" THEN 3 ELSE IF pc = "search" THEN 2
       ELSE IF pc = "sleep" THEN 1 ELSE 0)

AllWhitespace(s) == \A k \in 1..Len(s) : CharAt(s, k) \in Whitespace

\* ------------------------------------------------------------------ claims

\* C1: retrieve_documents returns a mapping whose key set is exactly the
\* input queries, and every query that failed at the embedding or search
\* step is mapped to the empty list.  (The code leaves out the queries whose
\* embedding failed or came back empty.)
C1_EveryQueryHasAnEntry ==
    Returned =>
        /\ DictKeys(all_documents) = Range(queries)
        /\ \A q \in FailedQueries :
              q \in DictKeys(all_documents) /\ DictGet(all_documents, q) = <<>>

\* No exception leaves retrieve_documents, its loop can always take its next
\* step, and the embedding requests issued so far are those of the queries
\* processed so far, in list order: all of them once it has returned.
BatchContinues ==
    /\ ~raised
    /\ pc # "crashed"
    /\ InRetrieve => i \in 1..(Len(queries) + 1) /\ ENABLED RetrieveStep
    /\ InRetrieve => SubSeq(queries, 1, Len(EmbedQueries)) = EmbedQueries
    /\ Returned => EmbedQueries = queries

\* C2: a failing embedding or search call never aborts the batch:
\* retrieve_documents never raises, it terminates (every step of its loop
\* can be followed by the next and lowers the number of steps left) and
\* returns, and one embedding request is issued for every query, in list
\* order, whatever failed before it.
C2_BatchNeverAborts ==
    /\ []BatchContinues
    /\ [][InRetrieve /\ RetrieveStep => LoopMeasure' < LoopMeasure]_vars

\* C2 witness: a call has returned although its first query failed, and the
\* last query's embedding was still requested.
C2_Witness ==
    /\ Returned
    /\ Len(queries) >= 2
    /\ queries[1] \in FailedQueries
    /\ EmbedQueries[Len(EmbedQueries)] = queries[Len(queries)]

\* C3: for content that is empty or whitespace-only,
\* generate_headway_style_summary returns the fixed message and makes no
\* chat completion call; a call is made only for content with a character
\* that is not whitespace.
C3_NoGenerationWithoutContent ==
    /\ (summary_text # None /\ AllWhitespace(all_content)) =>
          summary_text = NoContentMessage /\ chat_calls = 0
    /\ chat_calls > 0 => ~AllWhitespace(all_content)

\* C3 witness: a whitespace-only content was answered with the message.
C3_Witness ==
    /\ entry = "summary"
    /\ pc = "done"
    /\ all_content = " \n\t "
    /\ summary_text = NoContentMessage
    /\ chat_calls = 0

\* The run made every embedding request and each of them raised.
AllEmbeddingsFailed ==
    /\ trace # <<>>
    /\ Len(trace) = Len(queries)
    /\ \A e \in Range(trace) : e.op = "embed" /\ e.out = "raise"

\* C4: in a Generate run whose embedding calls all fail the aggregated
\* content is empty, no chat completion call is made and the result of the
\* run is the fixed no-content message.  (The handler stores no result at
\* all in such a run: summary_result keeps its earlier value.)
C4_AllEmbeddingsFailGivesMessage ==
    (entry = "ui" /\ pc = "display" /\ AllEmbeddingsFailed) =>
        /\ all_content = ""
        /\ chat_calls = 0
        /\ summary_result = NoContentMessage

\* C5: every occurrence of the content in a prompt sent to the chat
\* completion call has length min(len(content), 15000).  (The prompt's first
\* "Content:" block holds the content untruncated.)
C5_ContentWithinBudget ==
    \A k \in DOMAIN prompt_parts :
        prompt_parts[k].kind = "content" =>
            Len(prompt_parts[k].text) = Min(Len(all_content), ContentBudget)

\* C6: when the chat completion call raises, generate_headway_style_summary
\* does not raise but returns "Error: " and the failure description; the
\* handler stores that string as summary_result; and the script goes on to
\* wait for the next interaction, where Generate can be run again.
C6_GenerationFailureIsAResult ==
    /\ \A e \in Range(trace) :
          (e.op = "chat" /\ e.out = "raise") =>
              /\ ~raised
              /\ pc # "crashed"
              /\ StartsWith(summary_text, "Error:")
              /\ summary_text = "Error: " \o e.q
              /\ (entry = "ui" /\ pc = "display") => summary_result = summary_text
    /\ (entry = "ui" /\ pc \in {"store", "display"}) => ENABLED (StoreResult \/ Display)
    /\ (entry = "ui" /\ pc = "idle") => ENABLED Generate

\* C6 witness: the session holds an "Error:" result and waits for the next
\* Generate.
C6_Witness ==
    /\ entry = "ui"
    /\ pc = "idle"
    /\ summary_result = "Error: Connection error."
    /\ ENABLED Generate

\* generate_retrieval_queries has just returned its list: to the handler,
\* which passes it to retrieve_documents next, or to a direct caller.
FromQueryGenerator ==
    \/ entry = "ui" /\ pc = "retrieve"
    \/ entry = "queries" /\ pc = "done"

\* C7: generate_retrieval_queries returns no string twice, whatever the
\* metadata, so the list passed to retrieve_documents has no duplicates.
C7_NoDuplicateQueries ==
    FromQueryGenerator => NoDuplicates(queries)

\* C7 witness: two of the ten patterns coincided (title and author differ)
\* and the returned list holds nine strings.
C7_Witness ==
    /\ entry = "queries"
    /\ pc = "done"
    /\ metadata.title # metadata.author
    /\ Len(queries) = 9

\* C8 as claimed: for a non-empty title every returned query contains the
\* title.
C8_EveryQueryContainsTitle ==
    (FromQueryGenerator /\ metadata.title # "") =>
        \A k \in DOMAIN queries : Contains(queries[k], metadata.title)

\* C8 amended: for a non-empty title every returned query other than the
\* author-only query contains the title.
C8_EveryQueryButAuthorContainsTitle ==
    (FromQueryGenerator /\ metadata.title # "") =>
        \A k \in DOMAIN queries :
            queries[k] # metadata.author => Contains(queries[k], metadata.title)

\* C8 witness: ten queries were returned for a non-empty title and an
\* author that does not contain it.
C8_Witness ==
    /\ entry = "queries"
    /\ pc = "done"
    /\ metadata.title # ""
    /\ ~Contains(metadata.author, metadata.title)
    /\ Len(queries) = 10
    /\ metadata.author \in Range(queries)

\* The number of time.sleep calls between positions a and b of the trace.
SleepsBetween(a, b) ==
    Cardinality({p \in (a + 1)..(b - 1) : trace[p].op = "sleep"})

\* The position of the last embedding request before position p (0: none).
PreviousEmbed(p) ==
    IF \E a \in 1..(p - 1) : trace[a].op = "embed"
    THEN CHOOSE a \in 1..(p - 1) :
            /\ trace[a].op = "embed"
            /\ \A b \in (a + 1)..(p - 1) : trace[b].op # "embed"
    ELSE 0

\* C9: no delay occurs before the first query's embedding request, and
\* exactly one delay occurs between the end of a query's processing and the
\* next query's embedding request.  (The code sleeps only after a search
\* that succeeded.)
C9_OneDelayBetweenQueries ==
    \A p \in DOMAIN trace :
        trace[p].op = "embed" =>
            IF PreviousEmbed(p) = 0
            THEN SleepsBetween(0, p) = 0
            ELSE SleepsBetween(PreviousEmbed(p), p) = 1

\* Every embedding and every search of the run succeeded and every search
\* returned the single chunk c.
AllSucceededWith(c) ==
    /\ Len(EventsOf("embed")) = Len(queries)
    /\ Len(EventsOf("search")) = Len(queries)
    /\ \A e \in Range(trace) :
          /\ e.op = "embed" => e.out = "ok"
          /\ e.op = "search" => e.out = "ok" /\ e.data = << [chunk |-> c] >>

\* C10: in a Generate run where every embedding and search succeeds and
\* every search returns the single chunk c, the content is one copy of c and
\* a newline per distinct query, and the prompt sent to the chat completion
\* call contains the title and the author.
C10_OneChunkPerQuery ==
    (entry = "ui" /\ chat_calls > 0 /\ AllSucceededWith("c")) =>
        /\ all_content =
              Repeat("c\n", Cardinality(Range(QueryPatterns(metadata))))
        /\ Len(queries) = Cardinality(Range(QueryPatterns(metadata)))
        /\ Contains(Flatten(prompt_parts), metadata.title)
        /\ Contains(Flatten(prompt_parts), metadata.author)

\* C10 witness: such a run has sent its prompt.
C10_Witness ==
    /\ entry = "ui"
    /\ chat_calls > 0
    /\ AllSucceededWith("c")
    /\ Len(queries) = 10
    /\ metadata.title = "Atomic Habits"

\* ------------------------------------------------------------- claim C11

\* What a placeholder stands for: the title, the author, the truncated
\* content.
PlaceholderValue(name, metadata_, content) ==
    CASE name = "title" -> metadata_.title
      [] name = "author" -> metadata_.author
      [] name = "content" -> Truncate(content)

\* The template with every placeholder piece exchanged for its value and
\* every literal piece kept as written.
RECURSIVE Fill(_, _, _)
Fill(pieces, metadata_, content) ==
    IF pieces = <<>>
    THEN ""
    ELSE LET p == Head(pieces)
         IN  (IF p.kind = "literal"
              THEN p.text
              ELSE PlaceholderValue(p.text, metadata_, content))
             \o Fill(Tail(pieces), metadata_, content)

Assembled == entry = "assemble" /\ pc = "done"

\* The pieces the template of this call was written from.
PiecesOf(t) == { pieces \in TemplatePool : Render(pieces) = t }

BraceFree(s) == ~Contains(s, "{") /\ ~Contains(s, "}")

\* The values hold no brace character and, put into the template, spell
\* none of the six placeholders.
PlainValues(pieces) ==
    /\ BraceFree(metadata.title)
    /\ BraceFree(metadata.author)
    /\ BraceFree(Truncate(all_content))
    /\ \A ph \in Placeholders :
          Occurrences(Fill(pieces, metadata, all_content), ph) = {}

\* C11 as claimed: the prompt returned by assemble is the template with
\* every placeholder, double-brace or single-brace, exchanged for the title,
\* the author or the truncated content, no brace of a placeholder left over,
\* and every other brace sequence as written; assemble does not raise.
C11_PlaceholdersResolved ==
    Assembled =>
        /\ ~raised
        /\ \A pieces \in PiecesOf(template) :
              assembled_prompt = Fill(pieces, metadata, all_content)

\* C11 amended: the same for a title, an author and a content that hold no
\* brace character and complete no placeholder with the text around them.
C11_PlaceholdersResolvedForPlainValues ==
    Assembled =>
        /\ ~raised
        /\ \A pieces \in PiecesOf(template) :
              PlainValues(pieces) =>
                  assembled_prompt = Fill(pieces, metadata, all_content)

\* C11 witness: a template mixing {{title}}, {author} and {{content}} was
\* assembled for a catalog book and a content over the budget.
C11_Witness ==
    /\ Assembled
    /\ template = "{{title}} by {author}: {{content}}"
    /\ metadata = BookMetadata("Atomic Habits", "James Clear")
    /\ Len(all_content) > ContentBudget
    /\ PiecesOf(template) # {}
    /\ \A pieces \in PiecesOf(template) : PlainValues(pieces)
    /\ assembled_prompt =
          "Atomic Habits by James Clear: " \o Repeat("x", ContentBudget)

\* ------------------------------------------------------------- claim C12

\* The requests and delays of the retrieve_documents call, in the order they
\* were issued.
RetrievalTrace ==
    SelectSeq(trace, LAMBDA e : e.op \in {"embed", "search", "sleep"})

\* C12: retrieve_documents takes the queries one at a time in list order:
\* the embedding requests issued so far are for the first queries of the
\* list, one each, and on return every query has had its one; a search
\* request directly follows the embedding request of the same query, which
\* returned a non-empty vector (so at most one search per query); and the
\* next query's embedding request comes only when the query before is
\* finished: skipped for want of a vector, failed in the search, or
\* searched and followed by the delay.
C12_OneQueryAtATime ==
    LET t == RetrievalTrace
        embeds == SelectSeq(t, LAMBDA e : e.op = "embed")
    IN  /\ Len(embeds) <= Len(queries)
        /\ \A k \in DOMAIN embeds : embeds[k].q = queries[k]
        /\ Returned => Len(embeds) = Len(queries)
        /\ \A p \in DOMAIN t :
              /\ t[p].op = "search" =>
                    /\ p > 1
                    /\ t[p - 1].op = "embed"
                    /\ t[p - 1].q = t[p].q
                    /\ generate_embedding(t[p - 1].out) # <<>>
              /\ t[p].op = "sleep" =>
                    /\ p > 1
                    /\ t[p - 1].op = "search"
                    /\ t[p - 1].q = t[p].q
                    /\ t[p - 1].out = "ok"
              /\ (t[p].op = "embed" /\ p > 1) =>
                    \/ /\ t[p - 1].op = "embed"
                       /\ generate_embedding(t[p - 1].out) = <<>>
                    \/ /\ t[p - 1].op = "search"
                       /\ t[p - 1].out = "raise"
                    \/ t[p - 1].op = "sleep"

\* C12 witness: a call with three queries has returned; the first query had
\* no vector, the second failed in the search, the third was searched.
C12_Witness ==
    /\ entry = "retrieve"
    /\ pc = "done"
    /\ Len(queries) = 3
    /\ Len(RetrievalTrace) = 6
    /\ RetrievalTrace[1].out = "empty"
    /\ RetrievalTrace[3].out = "raise"
    /\ RetrievalTrace[5].out = "ok"
    /\ RetrievalTrace[6].op = "sleep"

\* ------------------------------------------------------------- claim C13

\* The script has reached DISPLAY RESULT, or has rendered it and waits.
AtDisplay == entry = "ui" /\ pc \in {"display", "idle"}

\* if st.session_state.summary_result: the header and the summary are shown.
SummaryShown == summary_result # None /\ summary_result # ""

\* C13: whenever the session holds a summary, it was stored by the run for
\* the book named in current_book, so the header "Summary: <current_book>"
\* stands above that book's summary.  (A Generate run that retrieves nothing
\* sets current_book and leaves the earlier summary_result in place.)
C13_SummaryBelongsToCurrentBook ==
    (AtDisplay /\ SummaryShown) => result_book = current_book

\* ------------------------------------------------------------- claim C14

\* The callout titles put into the prompt, in the order of the prompt.
PromptCallouts ==
    LET c == SelectSeq(prompt_parts, LAMBDA part : part.kind = "callout")
    IN  [k \in DOMAIN c |-> c[k].text]

\* C14: a prompt built by a summarizer whose summary_language has an entry
\* in callout_translations carries that entry's callout titles.  (The code
\* looks up "English" whatever the language.)
C14_CalloutsInSummaryLanguage ==
    (prompt_parts # <<>> /\ summary_language \in DOMAIN callout_translations)
        => Range(PromptCallouts) =
               { callout_translations[summary_language][key] :
                   key \in Range(CalloutKeys) }

====
